---------------------------- MODULE Spec2Model ----------------------------
(***************************************************************************)
(* A model of cc_convert.py: the BCP tokenizer (parse_bcp), the SIR/TSV    *)
(* tokenizer (parse_tsv, parse_sir), the RDF mappers and the batch driver  *)
(* (convert_to_csv, convert_to_rdf).                                       *)
(*                                                                         *)
(* Text is a sequence of one-character strings.  A literal that the code   *)
(* writes as a whole (an IRI prefix, "/subsidiary/") is one element of the *)
(* sequence.  Python's None is the one-element text <<"None">>, which is   *)
(* also what str.format prints for it; no input alphabet holds "None".     *)
(***************************************************************************)
EXTENDS Integers, Sequences, FiniteSets, TLC

VARIABLES
    \* parse_bcp
    f_bytes,                \* the content of the stream f
    f_tell,                 \* f.tell(): characters of f consumed
    row,
    cell,
    expected_cell_count,
    pos,
    yielded,                \* the rows the generator has yielded, in order
    bcp_state,              \* "reading", "done" or "BcpParseError"
    written,                \* the rows a writer serialized into f_bytes
    \* parse_tsv and parse_sir
    tsv_r,                  \* r as parse_tsv yielded it
    sir_r,                  \* r as parse_sir yielded it
    sir_expected_cell_count,
    line_no,
    sir_state,              \* "reading", "yielded", "done" or "IndexError"
    sir_rdf_file,           \* sir_to_rdf: the strings written to rdf_file
    \* join_continuation_strings
    chunks,                 \* the list as the caller passed it
    arry,                   \* the same list, changed in place by the loop
    join_i,                 \* iterations of the for loop done
    join_result,
    join_state,             \* "called" or "returned"
    \* an RDF mapper run by turtle_conversion
    conversion_function,
    map_row,                \* row, the record last read from parse_bcp
    rows_read,
    rdf_file,               \* the strings written to the output file, in order
    flushed,                \* how many of them a flush or close has pushed out
    map_state,              \* "running", "done" or the exception raised
    o,                      \* convert_objectives
    current_charity,        \* convert_objectives
    \* the batch driver: convert_to_csv, convert_to_rdf
    source,                 \* source_dir: what each input file holds
    target,                 \* target_dir: each output file's content
    mode,                   \* "csv" or "rdf": opts.output of the current run
    job,                    \* the input the run has come to
    run_no,                 \* runs started so far
    run_state,              \* "idle", "running", "ok" or "error"
    prev                    \* mode and outcome of the run before this one

bcpVars == <<f_bytes, f_tell, row, cell, expected_cell_count, pos, yielded,
             bcp_state, written>>
sirVars == <<tsv_r, sir_r, sir_expected_cell_count, line_no, sir_state,
             sir_rdf_file>>
joinVars == <<chunks, arry, join_i, join_result, join_state>>

mapVars == <<conversion_function, map_row, rows_read, rdf_file, flushed, map_state, o,
             current_charity>>

drvVars == <<source, target, mode, job, run_no, run_state, prev>>

vars == <<bcpVars, sirVars, joinVars, mapVars, drvVars>>

notBcp == <<sirVars, joinVars, mapVars, drvVars>>
notSir == <<bcpVars, joinVars, mapVars, drvVars>>
notJoin == <<bcpVars, sirVars, mapVars, drvVars>>
notMap == <<bcpVars, sirVars, joinVars, drvVars>>
notDrv == <<bcpVars, sirVars, joinVars, mapVars>>

(***************************************************************************)
(* Bounds                                                                  *)
(***************************************************************************)
MaxTokens == 6
MaxLineLen == 5
MaxLines == 2
MaxCells == 8
MaxChunks == 3
MaxRecords == 2
NumTables == 2
MaxRuns == 2

(***************************************************************************)
(* Text helpers                                                            *)
(***************************************************************************)
None == <<"None">>

\* the characters str.strip and str.rstrip remove, among those the model's
\* alphabets hold
Whitespace == {" ", "\t", "\n", "\r", "\f"}

RECURSIVE rstrip(_)
rstrip(s) ==
    IF s = <<>> THEN s
    ELSE IF s[Len(s)] \in Whitespace THEN rstrip(SubSeq(s, 1, Len(s) - 1))
    ELSE s

RECURSIVE Flatten(_)
Flatten(ss) ==
    IF ss = <<>> THEN <<>> ELSE Head(ss) \o Flatten(Tail(ss))

Min(a, b) == IF a < b THEN a ELSE b

CellBreakSentinel == <<"@", "*", "*", "@">>
RowBreakSentinel == <<"*", "@", "@", "*">>

(***************************************************************************)
(* parse_bcp                                                               *)
(***************************************************************************)
\* f.read(n) at offset o: the next n characters, fewer at end of stream
Read(bytes, offset, n) == SubSeq(bytes, offset + 1, Min(offset + n, Len(bytes)))

\* row.append(None if cell == '' else cell.rstrip())
ClosedCellNoneAfterTrim(c) == IF rstrip(c) = <<>> THEN None ELSE rstrip(c)
ClosedCellKeepEmpty(c) == rstrip(c)
ClosedCell(c) == IF c = <<>> THEN None ELSE rstrip(c)

\* the test that raises BcpParseError
CountMismatchNever(expected, n) == FALSE
CountMismatch(expected, n) == expected # 0 /\ expected # n

\* f.seek(current_offset) after a failed look-ahead; current_offset is
\* f.tell() taken right after ch was read
SeekNoRewind(current_offset, buff) == current_offset + Len(buff)
SeekBeforeChar(current_offset, buff) == current_offset - 1
SeekTarget(current_offset, buff) == current_offset

\* what remains of the loop once f.read(1) returns '': nothing is yielded
EndYieldPartial(rows, r, c) ==
    IF r # <<>> \/ c # <<>> THEN Append(rows, Append(r, ClosedCell(c))) ELSE rows
EndYield(rows, r, c) == rows

TokenSet ==
    {CellBreakSentinel, RowBreakSentinel, <<"@">>, <<"*">>, <<"a">>, <<" ">>}

TokenSeqs == UNION {[1..n -> TokenSet] : n \in 0..MaxTokens}

\* The rows a writer puts out as the token sequence toks: every token that is
\* no sentinel is cell text, "@**@" ends a cell, "*@@*" ends a cell and a row,
\* an absent cell is written as empty text.
RECURSIVE RowsOf(_, _, _, _)
RowsOf(toks, rows, r, c) ==
    IF toks = <<>> THEN rows
    ELSE IF Head(toks) = CellBreakSentinel
        THEN RowsOf(Tail(toks), rows, Append(r, IF c = <<>> THEN None ELSE c), <<>>)
    ELSE IF Head(toks) = RowBreakSentinel
        THEN RowsOf(Tail(toks),
                    Append(rows, Append(r, IF c = <<>> THEN None ELSE c)),
                    <<>>, <<>>)
    ELSE RowsOf(Tail(toks), rows, r, c \o Head(toks))

BcpStart ==
    /\ \E toks \in TokenSeqs :
        /\ f_bytes = Flatten(toks)
        /\ written = IF toks # <<>> /\ toks[Len(toks)] = RowBreakSentinel
                     THEN RowsOf(toks, <<>>, <<>>, <<>>)
                     ELSE <<>>
    /\ f_tell = 0
    /\ row = <<>>
    /\ expected_cell_count = 0
    /\ cell = <<>>
    /\ pos = 0
    /\ yielded = <<>>
    /\ bcp_state = "reading"

\* parse_bcp is not running
BcpIdle ==
    /\ f_bytes = <<>>
    /\ written = <<>>
    /\ f_tell = 0
    /\ row = <<>>
    /\ expected_cell_count = 0
    /\ cell = <<>>
    /\ pos = 0
    /\ yielded = <<>>
    /\ bcp_state = "idle"

\* One iteration of the for loop has a character to read
CanRead == bcp_state = "reading" /\ f_tell < Len(f_bytes)
ch == f_bytes[f_tell + 1]
buff == Read(f_bytes, f_tell + 1, 3)

AtCellBreak == CanRead /\ ch = "@" /\ buff = <<"*", "*", "@">>
AtRowBreak == CanRead /\ ch = "*" /\ buff = <<"@", "@", "*">>

\* else: cell = cell + ch
Literal ==
    /\ CanRead
    /\ ch \notin {"@", "*"}
    /\ pos' = pos + 1
    /\ f_tell' = f_tell + 1
    /\ cell' = Append(cell, ch)
    /\ UNCHANGED <<f_bytes, row, expected_cell_count, yielded, bcp_state, written>>
    /\ UNCHANGED notBcp

\* if ch == '@' and buff == '**@'
CellBreak ==
    /\ AtCellBreak
    /\ pos' = pos + 1
    /\ f_tell' = f_tell + 4
    /\ row' = Append(row, ClosedCell(cell))
    /\ cell' = <<>>
    /\ UNCHANGED <<f_bytes, expected_cell_count, yielded, bcp_state, written>>
    /\ UNCHANGED notBcp

\* elif ch == '*' and buff == '@@*'
RowBreak ==
    /\ AtRowBreak
    /\ pos' = pos + 1
    /\ f_tell' = f_tell + 4
    /\ cell' = <<>>
    /\ LET closed == Append(row, ClosedCell(cell)) IN
        IF expected_cell_count = 0
        THEN /\ expected_cell_count' = Len(closed)
             /\ yielded' = Append(yielded, closed)
             /\ row' = <<>>
             /\ UNCHANGED bcp_state
        ELSE IF CountMismatch(expected_cell_count, Len(closed))
        THEN /\ bcp_state' = "BcpParseError"
             /\ row' = closed
             /\ UNCHANGED <<expected_cell_count, yielded>>
        ELSE /\ yielded' = Append(yielded, closed)
             /\ row' = <<>>
             /\ UNCHANGED <<expected_cell_count, bcp_state>>
    /\ UNCHANGED <<f_bytes, written>>
    /\ UNCHANGED notBcp

\* else: f.seek(current_offset); cell = cell + ch
NotABreak ==
    /\ CanRead
    /\ ch \in {"@", "*"}
    /\ ~AtCellBreak /\ ~AtRowBreak
    /\ pos' = pos + 1
    /\ f_tell' = SeekTarget(f_tell + 1, buff)
    /\ cell' = Append(cell, ch)
    /\ UNCHANGED <<f_bytes, row, expected_cell_count, yielded, bcp_state, written>>
    /\ UNCHANGED notBcp

\* f.read(1) returns '': the loop and the generator end
EndOfStream ==
    /\ bcp_state = "reading"
    /\ f_tell >= Len(f_bytes)
    /\ bcp_state' = "done"
    /\ yielded' = EndYield(yielded, row, cell)
    /\ UNCHANGED <<f_bytes, f_tell, row, cell, expected_cell_count, pos, written>>
    /\ UNCHANGED notBcp

(***************************************************************************)
(* parse_tsv and parse_sir                                                 *)
(***************************************************************************)
TAB == "\t"

RECURSIVE rstrip_chars(_, _)
rstrip_chars(s, chars) ==
    IF s = <<>> THEN s
    ELSE IF s[Len(s)] \in chars THEN rstrip_chars(SubSeq(s, 1, Len(s) - 1), chars)
    ELSE s

\* str.split(sep): always at least one piece
RECURSIVE split(_, _)
split(s, sep) ==
    IF \E i \in 1..Len(s) : s[i] = sep
    THEN LET i == CHOOSE k \in 1..Len(s) :
                    s[k] = sep /\ \A m \in 1..(k - 1) : s[m] # sep
         IN <<SubSeq(s, 1, i - 1)>> \o split(SubSeq(s, i + 1, Len(s)), sep)
    ELSE <<s>>

\* sep.join(cells)
RECURSIVE join(_, _)
join(sep, cells) ==
    IF cells = <<>> THEN <<>>
    ELSE IF Len(cells) = 1 THEN cells[1]
    ELSE cells[1] \o <<sep>> \o join(sep, Tail(cells))

\* Python's s[k:] and s[:k], k negative counting from the end
SliceFrom(s, k) ==
    IF k >= 0 THEN SubSeq(s, k + 1, Len(s))
    ELSE SubSeq(s, (IF Len(s) + k < 0 THEN 0 ELSE Len(s) + k) + 1, Len(s))
SliceTo(s, k) ==
    IF k >= 0 THEN SubSeq(s, 1, Min(k, Len(s)))
    ELSE SubSeq(s, 1, IF Len(s) + k < 0 THEN 0 ELSE Len(s) + k)

\* [x.rstrip() for x in line.rstrip('\r\n').split('\t')]
parse_tsv(line) ==
    LET cells == split(rstrip_chars(line, {"\r", "\n"}), TAB)
    IN [i \in 1..Len(cells) |-> rstrip(cells[i])]

\* the overflow branch of parse_sir
MergeOverflowKeepAll(rw, expected) ==
    Append(SliceTo(rw, expected - 1), join(TAB, SliceFrom(rw, expected - 1)))
MergeOverflow(rw, expected) ==
    Append(SliceTo(rw, expected - 2), join(TAB, SliceFrom(rw, expected - 1)))

\* lines of sir_data.bcp with the five leading cells filled (registered
\* number, name, return cycle, question number, question text) and up to
\* MaxCells cells, the response cells empty or not
WideLineSet ==
    {join(TAB, <<<<"7">>, <<"a">>, <<"a">>, <<"1">>, <<"a">>>> \o cells)
            \o <<"\r", "\n">> :
        cells \in UNION {[1..n -> {<<>>, <<"a">>}] : n \in 1..(MaxCells - 5)}}

\* a line of the file with its CRLF terminator
LineSet ==
    {body \o <<"\r", "\n">> :
        body \in UNION {[1..n -> {"a", " ", TAB}] : n \in 0..MaxLineLen}}
    \cup WideLineSet

SirStart ==
    /\ tsv_r = <<>>
    /\ sir_r = <<>>
    /\ sir_expected_cell_count = 0
    /\ line_no = 0
    /\ sir_state = "reading"
    /\ sir_rdf_file = <<>>

SirIdle ==
    /\ tsv_r = <<>>
    /\ sir_r = <<>>
    /\ sir_expected_cell_count = 0
    /\ line_no = 0
    /\ sir_state = "idle"
    /\ sir_rdf_file = <<>>

\* one iteration of the loop of parse_sir: a line is read and a row yielded
\* to the loop of sir_to_rdf
ParseSirRow ==
    /\ sir_state = "reading"
    /\ line_no < MaxLines
    /\ \E line \in LineSet :
        LET rw == parse_tsv(line) IN
        /\ tsv_r' = rw
        /\ line_no' = line_no + 1
        /\ IF sir_expected_cell_count = 0
           THEN /\ sir_expected_cell_count' = Len(rw)
                /\ sir_r' = rw
           ELSE IF Len(rw) > sir_expected_cell_count
           THEN /\ sir_r' = MergeOverflow(rw, sir_expected_cell_count)
                /\ UNCHANGED sir_expected_cell_count
           ELSE /\ sir_r' = rw
                /\ UNCHANGED sir_expected_cell_count
    /\ sir_state' = "yielded"
    /\ UNCHANGED sir_rdf_file
    /\ UNCHANGED notSir

\* the file has no more lines
ParseSirEnd ==
    /\ sir_state = "reading"
    /\ sir_state' = "done"
    /\ UNCHANGED <<tsv_r, sir_r, sir_expected_cell_count, line_no, sir_rdf_file>>
    /\ UNCHANGED notSir

(***************************************************************************)
(* join_continuation_strings                                               *)
(***************************************************************************)
Suffix0001 == <<"0", "0", "0", "1">>

\* if arry[i][-4:] == '0001': arry[i] = arry[i][:-4]
StripContinuation(x) ==
    IF SliceFrom(x, -4) = Suffix0001 THEN SliceTo(x, -4) ELSE x

\* range(0, len(arry)-1)
StripRangeAll(a) == Len(a)
StripRange(a) == Len(a) - 1

join_continuation_strings(a) ==
    IF Len(a) = 1 THEN a[1]
    ELSE Flatten([i \in 1..Len(a) |->
            IF i <= StripRange(a) THEN StripContinuation(a[i]) ELSE a[i]])

ChunkSet ==
    {<<>>, <<"a">>, Suffix0001, <<"a">> \o Suffix0001, Suffix0001 \o Suffix0001,
     <<"0", "0", "1">>}

JoinStart ==
    /\ chunks \in UNION {[1..n -> ChunkSet] : n \in 0..MaxChunks}
    /\ arry = chunks
    /\ join_i = 0
    /\ join_result = <<>>
    /\ join_state = "called"

JoinIdle ==
    /\ chunks = <<>>
    /\ arry = <<>>
    /\ join_i = 0
    /\ join_result = <<>>
    /\ join_state = "idle"

\* if len(arry) == 1: return arry[0]
JoinOnlyChunk ==
    /\ join_state = "called"
    /\ Len(arry) = 1
    /\ join_result' = arry[1]
    /\ join_state' = "returned"
    /\ UNCHANGED <<chunks, arry, join_i>>
    /\ UNCHANGED notJoin

\* one iteration of the for loop
JoinStrip ==
    /\ join_state = "called"
    /\ Len(arry) # 1
    /\ join_i < StripRange(arry)
    /\ arry' = [arry EXCEPT ![join_i + 1] = StripContinuation(@)]
    /\ join_i' = join_i + 1
    /\ UNCHANGED <<chunks, join_result, join_state>>
    /\ UNCHANGED notJoin

\* return ''.join(arry)
JoinReturn ==
    /\ join_state = "called"
    /\ Len(arry) # 1
    /\ join_i >= StripRange(arry)
    /\ join_result' = Flatten(arry)
    /\ join_state' = "returned"
    /\ UNCHANGED <<chunks, arry, join_i>>
    /\ UNCHANGED notJoin

(***************************************************************************)
(* RDF mappers                                                             *)
(***************************************************************************)
\* PREFIXES['charity']
CHARITY == "http://data.networkedplanet.com/data/charity_commission/charity/"

BACKSPACE == "<BS>"

\* Python's truth value of a cell: None and '' are false
Truthy(x) == x # None /\ x # <<>>

RECURSIVE lstrip(_)
lstrip(s) ==
    IF s = <<>> THEN s
    ELSE IF s[1] \in Whitespace THEN lstrip(Tail(s))
    ELSE s

strip(s) == lstrip(rstrip(s))

EscapeChar(c) ==
    CASE c = "\\" -> <<"\\", "\\">>
      [] c = "\t" -> <<"\\", "t">>
      [] c = BACKSPACE -> <<"\\", "b">>
      [] c = "\n" -> <<"\\", "n">>
      [] c = "\r" -> <<"\\", "r">>
      [] c = "\f" -> <<"\\", "f">>
      [] c = "'" -> <<"\\", "'">>
      [] c = "\"" -> <<"\\", "\"">>
      [] OTHER -> <<c>>

\* escape_string of a str; of None it raises AttributeError (None.strip)
escape_string(to_escape) ==
    LET t == strip(to_escape) IN Flatten([i \in 1..Len(t) |-> EscapeChar(t[i])])

charity_iri(registered_number, subsidiary_number) ==
    IF Truthy(subsidiary_number) /\ subsidiary_number # <<"0">>
    THEN <<"<", CHARITY>> \o registered_number \o <<"/subsidiary/">>
            \o subsidiary_number \o <<">">>
    ELSE <<"<", CHARITY>> \o registered_number \o <<">">>

\* int() of a string of digits
DigitValue(c) ==
    CASE c = "0" -> 0 [] c = "1" -> 1 [] c = "2" -> 2 [] c = "3" -> 3
      [] c = "4" -> 4 [] c = "5" -> 5 [] c = "6" -> 6 [] c = "7" -> 7
      [] c = "8" -> 8 [] c = "9" -> 9

RECURSIVE int(_)
int(s) ==
    IF Len(s) = 1 THEN DigitValue(s[1])
    ELSE 10 * int(SubSeq(s, 1, Len(s) - 1)) + DigitValue(s[Len(s)])

\* a convert_charities_extract with the contactName lines left in
CharitiesExtractWritesContact(rw) ==
    IF Truthy(rw[10])
    THEN << <<"\t; ont:contactName \"">> \o escape_string(rw[10]) \o <<"\"\n">>,
            <<"\t.\n">> >>
    ELSE << <<"\t.\n">> >>

\* the strings convert_charities_extract writes for one row
CharitiesExtractWrites(rw) ==
    LET is_sub == rw[2] # <<"0">>
        s == IF is_sub
             THEN <<"<", CHARITY>> \o rw[1] \o <<"/subsidiary/">> \o rw[2] \o <<">">>
             ELSE <<"charity:">> \o rw[1]
    IN  (IF is_sub
         THEN << <<"charity:">> \o rw[1] \o <<" s:childOrganization ">> \o s
                    \o <<" .\n">>,
                 s \o <<" a s:Organization, ont:Charity\n">>,
                 <<"\t; s:parentOrganization charity:">> \o rw[1] \o <<"\n">> >>
         ELSE << s \o <<" a s:Organization, ont:Charity\n">> >>)
        \o (IF Truthy(rw[3])
            THEN << <<"\t; s:name \"">> \o escape_string(rw[3]) \o <<"\"\n">> >>
            ELSE <<>>)
        \o (IF Truthy(rw[4])
            THEN << <<"\t; ont:registerStatus reg:",
                      IF rw[4] = <<"R">> THEN "REGISTERED" ELSE "REMOVED", "\n">> >>
            ELSE <<>>)
        \o (IF Truthy(rw[5])
            THEN << <<"\t; ont:governingDocument \"">> \o escape_string(rw[5])
                        \o <<"\"\n">> >>
            ELSE <<>>)
        \o (IF Truthy(rw[6])
            THEN << <<"\t; ont:areaOfBenefit \"">> \o escape_string(rw[6])
                        \o <<"\"\n">> >>
            ELSE <<>>)
        \o (IF rw[8] = <<"T">> THEN << <<"\t; a ont:NhsCharity\n">> >> ELSE <<>>)
        \o (IF Truthy(rw[9])
            THEN << <<"\t; ont:housingAssociationNumber \"">> \o escape_string(rw[9])
                        \o <<"\"\n">> >>
            ELSE <<>>)
        \o << <<"\t.\n">> >>

\* the string convert_name writes for one row whose name is a str
NameWrites(rw) ==
    LET charity == charity_iri(rw[1], rw[2])
        name == escape_string(rw[4])
    IN << charity \o <<" rdfs:label \"">> \o name \o <<"\"; s:name \"">> \o name
            \o <<"\" .\n">> >>

\* the strings convert_class_ref writes for one row whose label is a str;
\* the label line is formatted with (cls, label) and one placeholder
ClassRefWrites(rw) ==
    LET cls == <<"class:">> \o rw[1]
    IN << cls \o <<" a ont:CharitablePurposeClass\n">>,
          <<"\t; rdfs:label \"">> \o cls \o <<"\"\n">>,
          <<"\t.\n">> >>

\* convert_objectives: the statement written for a finished run of chunks
ObjectiveRaises(ol) == \E i \in 1..Len(ol) : ol[i] = None
\* a one-element [None] comes back from the join and fails in escape_string;
\* otherwise the slice or the join of None fails
ObjectiveError(ol) == IF Len(ol) = 1 THEN "AttributeError" ELSE "TypeError"
ObjectiveWrites(cur, ol) ==
    << cur \o <<" ont:objective \"">>
        \o escape_string(join_continuation_strings(ol)) \o <<"\" .\n">> >>

\* while len(o) < ix+1: o.append(''); o[ix] = chunk
PlaceChunk(ol, ix, chunk) ==
    [i \in 1..(IF Len(ol) < ix + 1 THEN ix + 1 ELSE Len(ol)) |->
        IF i = ix + 1 THEN chunk
        ELSE IF i <= Len(ol) THEN ol[i] ELSE <<>>]

\* records of extract_charity (18 cells), extract_name (4), extract_class_ref
\* (2) and extract_objects (4) as parse_bcp yields them
SubsidiaryCells == {None, <<"0">>, <<"1">>}

CharityRecords ==
    {<<reg, sub, name, status, None, None, None, nhs, None,
       contact, None, None, None, None, None, contact, None, None>> :
        reg \in {<<"7">>}, sub \in SubsidiaryCells, name \in {None, <<"a">>},
        status \in {None, <<"R">>}, nhs \in {None, <<"T">>},
        contact \in {None, <<"c">>}}

NameRecords ==
    {<<reg, sub, <<"1">>, name>> :
        reg \in {<<"7">>}, sub \in SubsidiaryCells,
        name \in {None, <<>>, <<"a">>, <<" ", "'">>}}

ClassRefRecords ==
    {<<code, label>> : code \in {<<"1">>, <<"2">>},
                       label \in {None, <<"a">>, <<"\"">>}}

ObjectRecords ==
    {<<reg, sub, ix, chunk>> :
        reg \in {<<"7">>, <<"8">>}, sub \in {None, <<"0">>},
        ix \in {<<"0">>, <<"1">>, <<"2">>},
        chunk \in {None, <<"a">>, <<"a">> \o Suffix0001, Suffix0001}}

\* the mappers convert_to_rdf hands to turtle_conversion, of those modelled
\* here; the call with convert_trustee is commented out
RdfConversionFunctions ==
    {"convert_charities_extract", "convert_name", "convert_class_ref",
     "convert_objectives"}

\* csv.writer(csv_file).writerow(r) with the default dialect: None is written
\* as the empty string, a field holding the delimiter, the quote character
\* or a line break is quoted with its quotes doubled, a row of one empty
\* field is written as a pair of quotes
FlushEvery == 10000

CsvSpecial == {",", "\"", "\r", "\n", "\r\n"}

DoubleQuotes(c) ==
    Flatten([k \in 1..Len(c) |-> IF c[k] = "\"" THEN <<"\"", "\"">> ELSE <<c[k]>>])

CsvField(c) ==
    IF c = None THEN <<>>
    ELSE IF \E k \in 1..Len(c) : c[k] \in CsvSpecial
         THEN <<"\"">> \o DoubleQuotes(c) \o <<"\"">>
         ELSE c

writerow(rw) ==
    IF Len(rw) = 1 /\ CsvField(rw[1]) = <<>>
    THEN <<"\"", "\"", "\r\n">>
    ELSE join(",", [k \in 1..Len(rw) |-> CsvField(rw[k])]) \o <<"\r\n">>

CsvRecords == NameRecords \cup ClassRefRecords

MapStart ==
    /\ conversion_function \in {"bcp_to_csv"} \cup RdfConversionFunctions
    /\ map_row = <<>>
    /\ rows_read = 0
    /\ rdf_file = <<>>
    /\ flushed = 0
    /\ map_state = "running"
    /\ o = <<>>
    /\ current_charity = None

MapIdle ==
    /\ conversion_function = "none"
    /\ map_row = <<>>
    /\ rows_read = 0
    /\ rdf_file = <<>>
    /\ flushed = 0
    /\ map_state = "idle"
    /\ o = <<>>
    /\ current_charity = None

\* bcp_to_csv: the loop body for one row parse_bcp yields; the output file
\* is csv_file
BcpToCsvRow ==
    /\ map_state = "running"
    /\ conversion_function = "bcp_to_csv"
    /\ rows_read < MaxRecords
    /\ \E rw \in CsvRecords :
        /\ map_row' = rw
        /\ rdf_file' = Append(rdf_file, writerow(rw))
    /\ rows_read' = rows_read + 1
    /\ flushed' = IF rows_read' % FlushEvery = 0 THEN Len(rdf_file') ELSE flushed
    /\ UNCHANGED <<conversion_function, map_state, o, current_charity>>
    /\ UNCHANGED notMap

ConvertCharitiesExtractRow ==
    /\ map_state = "running"
    /\ conversion_function = "convert_charities_extract"
    /\ rows_read < MaxRecords
    /\ \E rw \in CharityRecords :
        /\ map_row' = rw
        /\ rdf_file' = rdf_file \o CharitiesExtractWrites(rw)
    /\ flushed' = Len(rdf_file')
    /\ rows_read' = rows_read + 1
    /\ UNCHANGED <<conversion_function, map_state, o, current_charity>>
    /\ UNCHANGED notMap

ConvertNameRow ==
    /\ map_state = "running"
    /\ conversion_function = "convert_name"
    /\ rows_read < MaxRecords
    /\ \E rw \in NameRecords :
        /\ map_row' = rw
        /\ IF rw[4] = None
           THEN /\ map_state' = "AttributeError"
                /\ flushed' = Len(rdf_file)
                /\ UNCHANGED rdf_file
           ELSE /\ rdf_file' = rdf_file \o NameWrites(rw)
                /\ UNCHANGED <<map_state, flushed>>
    /\ rows_read' = rows_read + 1
    /\ UNCHANGED <<conversion_function, o, current_charity>>
    /\ UNCHANGED notMap

ConvertClassRefRow ==
    /\ map_state = "running"
    /\ conversion_function = "convert_class_ref"
    /\ rows_read < MaxRecords
    /\ \E rw \in ClassRefRecords :
        /\ map_row' = rw
        /\ IF rw[2] = None
           THEN /\ map_state' = "AttributeError"
                /\ flushed' = Len(rdf_file)
                /\ UNCHANGED rdf_file
           ELSE /\ rdf_file' = rdf_file \o ClassRefWrites(rw)
                /\ UNCHANGED <<map_state, flushed>>
    /\ rows_read' = rows_read + 1
    /\ UNCHANGED <<conversion_function, o, current_charity>>
    /\ UNCHANGED notMap

ConvertObjectivesRow ==
    /\ map_state = "running"
    /\ conversion_function = "convert_objectives"
    /\ rows_read < MaxRecords
    /\ \E rw \in ObjectRecords :
        LET charity == charity_iri(rw[1], rw[2]) IN
        /\ map_row' = rw
        /\ IF charity # current_charity /\ Len(o) > 0 /\ ObjectiveRaises(o)
           THEN /\ map_state' = ObjectiveError(o)
                /\ flushed' = Len(rdf_file)
                /\ UNCHANGED <<rdf_file, o, current_charity>>
           ELSE /\ rdf_file' = IF charity # current_charity /\ Len(o) > 0
                               THEN rdf_file \o ObjectiveWrites(current_charity, o)
                               ELSE rdf_file
                /\ current_charity' = charity
                /\ o' = PlaceChunk(IF charity # current_charity THEN <<>> ELSE o,
                                   int(rw[3]), rw[4])
                /\ UNCHANGED <<map_state, flushed>>
    /\ rows_read' = rows_read + 1
    /\ UNCHANGED conversion_function
    /\ UNCHANGED notMap

\* parse_bcp is exhausted: the for loop ends; convert_objectives writes the
\* last run; leaving the with block closes the output file, on a return and
\* on an exception alike, and the close pushes out what was written
MapEnd ==
    /\ map_state = "running"
    /\ IF conversion_function = "convert_objectives" /\ Len(o) > 0
       THEN IF ObjectiveRaises(o)
            THEN /\ map_state' = ObjectiveError(o)
                 /\ UNCHANGED rdf_file
            ELSE /\ rdf_file' = rdf_file \o ObjectiveWrites(current_charity, o)
                 /\ map_state' = "done"
       ELSE /\ map_state' = "done"
            /\ UNCHANGED rdf_file
    /\ flushed' = Len(rdf_file')
    /\ UNCHANGED <<conversion_function, map_row, rows_read, o, current_charity>>
    /\ UNCHANGED notMap

(***************************************************************************)
(* sir_to_rdf: the loop body for one row parse_sir yields                  *)
(***************************************************************************)
\* locals of sir_to_rdf that the loop reads and never assigns
last_id == None
questions_described == {}

\* the strings written for a row before the response text is looked at
SirRowHeadWrites(rw) ==
    LET charity_id == charity_iri(rw[1], <<"0">>)
        return_cycle == rw[3]
        return_cycle_id == <<"<", CHARITY, "sirCycle/">> \o rw[3] \o <<">">>
        question_number == rw[4]
        question_id == <<"<", CHARITY, "/summaryInformationQuestion/">>
                        \o return_cycle \o <<"/">> \o question_number \o <<">">>
        return_id == <<"<", CHARITY>> \o rw[1] \o <<"/summaryInformationReturn/">>
                        \o return_cycle \o <<">">>
        response_id == <<"<", CHARITY>> \o rw[1]
                        \o <<"/summaryInformationResponse/">>
                        \o return_cycle \o <<"/">> \o question_number \o <<">">>
    IN  (IF return_id # last_id
         THEN << return_id \o <<" a ont:SummaryInformationReturn\n">>,
                 <<"\t; ont:submittedBy ">> \o charity_id \o <<"\n">>,
                 <<"\t; ont:sirCycle ">> \o return_cycle_id \o <<"\n">>,
                 <<"\t.\n">> >>
         ELSE <<>>)
        \o (IF question_number \notin questions_described
            THEN << question_id \o <<" a ont:SummaryInformationQuestion\n">>,
                    <<"\t;ont:questionText \"">> \o escape_string(rw[5])
                        \o <<"\"\n">>,
                    <<"\t.\n">> >>
            ELSE <<>>)
        \o << response_id \o <<" a ont:SummaryInformationResponse\n">>,
               <<"\t;ont:question ">> \o question_id \o <<"\n">> >>

\* row[6] is read when row[5] is empty, whatever len(row) is
ResponseRaises(rw) == Len(rw[6]) = 0 /\ Len(rw) < 7

ResponseText(rw) ==
    IF Len(rw[6]) > 0
    THEN IF Len(rw) = 6 THEN rw[6] ELSE rw[6] \o <<"\r">> \o rw[7]
    ELSE rw[7]

SirToRdfRow ==
    /\ sir_state = "yielded"
    /\ IF Len(sir_r) < 6 \/ Len(sir_r) > 7
       THEN /\ sir_state' = "reading"
            /\ UNCHANGED sir_rdf_file
       ELSE IF ResponseRaises(sir_r)
       THEN /\ sir_state' = "IndexError"
            /\ sir_rdf_file' = sir_rdf_file \o SirRowHeadWrites(sir_r)
       ELSE /\ sir_state' = "reading"
            /\ sir_rdf_file' = sir_rdf_file \o SirRowHeadWrites(sir_r)
                \o << <<"\t;ont:responseText \"">>
                          \o escape_string(ResponseText(sir_r)) \o <<"\"\n">>,
                      <<"\t.\n">> >>
    /\ UNCHANGED <<tsv_r, sir_expected_cell_count, line_no, sir_r>>
    /\ UNCHANGED notSir

(***************************************************************************)
(* The batch driver                                                        *)
(*                                                                         *)
(* Inputs 1..NumTables are the extract_*.bcp tables convert_to_rdf names,  *)
(* input NumTables + 1 is sir_data.bcp.  An input is "missing", "good",    *)
(* "bad_parse" (parse_bcp raises BcpParseError on it) or "bad_map" (it     *)
(* parses, and its RDF mapper raises).  An output file is absent, or holds *)
(* a partial or the complete conversion, with the run that wrote it.       *)
(***************************************************************************)
SirInput == NumTables + 1
Inputs == 1..SirInput

Absent == [kind |-> "absent", run |-> 0]

\* os.path.exists(path)
ExistsNever(file) == FALSE
Exists(file) == file.kind # "absent"

DrvStart ==
    /\ source \in [Inputs -> {"missing", "good", "bad_parse", "bad_map"}]
    /\ source[SirInput] # "bad_parse"
    /\ target = [i \in Inputs |-> [csv |-> Absent, ttl |-> Absent]]
    /\ mode = "none"
    /\ job = 0
    /\ run_no = 0
    /\ run_state = "idle"
    /\ prev = [mode |-> "none", state |-> "idle"]

DrvIdle ==
    /\ source = <<>>
    /\ target = <<>>
    /\ mode = "none"
    /\ job = 0
    /\ run_no = 0
    /\ run_state = "off"
    /\ prev = [mode |-> "none", state |-> "off"]

\* the command line: python cc_convert.py <rdf|csv> source_dir target_dir
StartRun ==
    /\ run_state \in {"idle", "ok", "error"}
    /\ run_no < MaxRuns
    /\ \E m \in {"csv", "rdf"} : mode' = m
    /\ prev' = [mode |-> mode, state |-> run_state]
    /\ job' = 1
    /\ run_no' = run_no + 1
    /\ run_state' = "running"
    /\ UNCHANGED <<source, target>>
    /\ UNCHANGED notDrv

\* one iteration of the loop of convert_to_csv over glob('*.bcp')
ConvertToCsvStep ==
    /\ run_state = "running"
    /\ mode = "csv"
    /\ job <= SirInput
    /\ job' = job + 1
    /\ IF source[job] = "missing" \/ Exists(target[job].csv)
       THEN UNCHANGED <<target, run_state>>
       ELSE IF job = SirInput \/ source[job] # "bad_parse"
       THEN /\ target' = [target EXCEPT ![job].csv =
                            [kind |-> "complete", run |-> run_no]]
            /\ UNCHANGED run_state
       ELSE /\ target' = [target EXCEPT ![job].csv =
                            [kind |-> "partial", run |-> run_no]]
            /\ run_state' = "error"
    /\ UNCHANGED <<source, mode, run_no, prev>>
    /\ UNCHANGED notDrv

\* one call of turtle_conversion by convert_to_rdf
TurtleConversion ==
    /\ run_state = "running"
    /\ mode = "rdf"
    /\ job <= NumTables
    /\ job' = job + 1
    /\ IF Exists(target[job].ttl)
       THEN UNCHANGED <<target, run_state>>
       ELSE IF source[job] = "missing"
       THEN /\ run_state' = "error"
            /\ UNCHANGED target
       ELSE IF source[job] = "good"
       THEN /\ target' = [target EXCEPT ![job].ttl =
                            [kind |-> "complete", run |-> run_no]]
            /\ UNCHANGED run_state
       ELSE /\ target' = [target EXCEPT ![job].ttl =
                            [kind |-> "partial", run |-> run_no]]
            /\ run_state' = "error"
    /\ UNCHANGED <<source, mode, run_no, prev>>
    /\ UNCHANGED notDrv

\* the call of sir_to_rdf that ends convert_to_rdf: the output is opened
\* before the input
SirToRdf ==
    /\ run_state = "running"
    /\ mode = "rdf"
    /\ job = SirInput
    /\ job' = job + 1
    /\ IF Exists(target[job].ttl)
       THEN UNCHANGED <<target, run_state>>
       ELSE IF source[job] = "good"
       THEN /\ target' = [target EXCEPT ![job].ttl =
                            [kind |-> "complete", run |-> run_no]]
            /\ UNCHANGED run_state
       ELSE /\ target' = [target EXCEPT ![job].ttl =
                            [kind |-> "partial", run |-> run_no]]
            /\ run_state' = "error"
    /\ UNCHANGED <<source, mode, run_no, prev>>
    /\ UNCHANGED notDrv

\* convert_to_csv or convert_to_rdf returns
RunEnd ==
    /\ run_state = "running"
    /\ job > SirInput
    /\ run_state' = "ok"
    /\ UNCHANGED <<source, target, mode, job, run_no, prev>>
    /\ UNCHANGED notDrv

(***************************************************************************)
(* Specifications                                                          *)
(***************************************************************************)
Init == BcpStart /\ SirIdle /\ JoinIdle /\ MapIdle /\ DrvIdle

Next ==
    \/ Literal
    \/ CellBreak
    \/ RowBreak
    \/ NotABreak
    \/ EndOfStream

Spec == Init /\ [][Next]_vars

\* the consumer's for loop keeps asking the generator for the next row, so
\* a loop iteration that can run does run
FairSpec == Spec /\ WF_vars(Next)

SirInit == BcpIdle /\ SirStart /\ JoinIdle /\ MapIdle /\ DrvIdle

SirNext ==
    \/ ParseSirRow
    \/ SirToRdfRow
    \/ ParseSirEnd

SirSpec == SirInit /\ [][SirNext]_vars

JoinInit == BcpIdle /\ SirIdle /\ JoinStart /\ MapIdle /\ DrvIdle

JoinNext ==
    \/ JoinOnlyChunk
    \/ JoinStrip
    \/ JoinReturn

JoinSpec == JoinInit /\ [][JoinNext]_vars

MapInit == BcpIdle /\ SirIdle /\ JoinIdle /\ MapStart /\ DrvIdle

MapNext ==
    \/ BcpToCsvRow
    \/ ConvertCharitiesExtractRow
    \/ ConvertNameRow
    \/ ConvertClassRefRow
    \/ ConvertObjectivesRow
    \/ MapEnd

MapSpec == MapInit /\ [][MapNext]_vars

DrvInit == BcpIdle /\ SirIdle /\ JoinIdle /\ MapIdle /\ DrvStart

DrvNext ==
    \/ StartRun
    \/ ConvertToCsvStep
    \/ TurtleConversion
    \/ SirToRdf
    \/ RunEnd

DrvSpec == DrvInit /\ [][DrvNext]_vars

(***************************************************************************)
(* Claims about parse_bcp                                                  *)
(***************************************************************************)
\* the row that a row boundary closed in this step: the one just yielded, or
\* the one left in row when BcpParseError was raised
ClosedRow == IF yielded' # yielded THEN yielded'[Len(yielded')] ELSE row'

\* C1: the first row boundary fixes the expected cell count; a later row
\* boundary whose row has another cell count raises BcpParseError and yields
\* nothing (the row is neither truncated nor padded), so every yielded record
\* has the cell count of the first one.
C1_UniformCellCount ==
    /\ [](\A i \in 1..Len(yielded) :
            /\ Len(yielded[i]) = Len(yielded[1])
            /\ expected_cell_count = Len(yielded[1]))
    /\ [][(AtRowBreak /\ yielded # <<>> /\ Len(row) + 1 # Len(yielded[1]))
            => /\ bcp_state' = "BcpParseError"
               /\ yielded' = yielded
               /\ Len(row') = Len(row) + 1]_vars

C1_Witness ==
    /\ bcp_state = "BcpParseError"
    /\ Len(yielded) >= 1
    /\ Len(row) # Len(yielded[1])

\* C2: a '@' not followed by '**@', or a '*' not followed by '@@*' (also when
\* fewer than 3 characters remain), is appended alone to the cell and reading
\* resumes right after it; the cell text is always the stretch of the stream
\* just consumed, no look-ahead character lost or duplicated.
C2_FailedLookAheadKeepsText ==
    /\ [][(/\ CanRead
           /\ \/ ch = "@" /\ Read(f_bytes, f_tell + 1, 3) # <<"*", "*", "@">>
              \/ ch = "*" /\ Read(f_bytes, f_tell + 1, 3) # <<"@", "@", "*">>)
            => /\ cell' = Append(cell, ch)
               /\ f_tell' = f_tell + 1
               /\ row' = row
               /\ yielded' = yielded]_vars
    /\ [](/\ Len(cell) <= f_tell
          /\ cell = SubSeq(f_bytes, f_tell - Len(cell) + 1, f_tell))

\* a '@' was kept as text and the '@' right after it, first read as
\* look-ahead, then started a cell boundary
C2_Witness ==
    /\ row = << <<"@">> >>
    /\ SubSeq(f_bytes, 1, f_tell) = <<"@">> \o CellBreakSentinel

\* C3: a closed cell whose text is empty after trimming is recorded as None,
\* any other as its text without trailing whitespace; a cell of whitespace
\* only is recorded as None, never as an empty string.
C3_EmptyAfterTrimIsNone ==
    /\ [][AtCellBreak => row' = Append(row, ClosedCellNoneAfterTrim(cell))]_vars
    /\ [][AtRowBreak => ClosedRow = Append(row, ClosedCellNoneAfterTrim(cell))]_vars

\* the claim's serialization of rows
SerializeRow(r) ==
    Flatten([i \in 1..Len(r) |->
        (IF r[i] = None THEN <<>> ELSE r[i])
            \o (IF i < Len(r) THEN CellBreakSentinel ELSE RowBreakSentinel)])

Serialize(rows) == Flatten([i \in 1..Len(rows) |-> SerializeRow(rows[i])])

HasSentinelAt(s, i) ==
    /\ i + 3 <= Len(s)
    /\ SubSeq(s, i, i + 3) \in {CellBreakSentinel, RowBreakSentinel}

ContainsSentinel(s) == \E i \in 1..Len(s) : HasSentinelAt(s, i)

WellFormedCell(c) ==
    \/ c = None
    \/ /\ c # <<>>
       /\ c[Len(c)] \notin Whitespace
       /\ ~ContainsSentinel(c)

WellFormedRows(rows) ==
    /\ Len(rows) >= 1
    /\ Len(rows[1]) >= 1
    /\ \A i \in 1..Len(rows) :
        /\ Len(rows[i]) = Len(rows[1])
        /\ \A j \in 1..Len(rows[i]) : WellFormedCell(rows[i][j])

\* no sentinel starts inside a cell's text once its delimiter is written
\* after it
DelimiterFirst(rows) ==
    \A i \in 1..Len(rows) : \A j \in 1..Len(rows[i]) :
        LET c == IF rows[i][j] = None THEN <<>> ELSE rows[i][j]
            d == IF j < Len(rows[i]) THEN CellBreakSentinel ELSE RowBreakSentinel
        IN \A k \in 1..Len(c) : ~HasSentinelAt(c \o d, k)

\* C4 as stated: rows of equal width whose cells are None or non-empty text
\* without trailing whitespace and without a sentinel inside, once serialized
\* and tokenized, come back unchanged and without error.
C4_RoundTrip ==
    (/\ bcp_state # "reading"
     /\ WellFormedRows(written)
     /\ Serialize(written) = f_bytes)
        => (bcp_state = "done" /\ yielded = written)

\* C4 amended: the same, for rows in which no cell's text followed by its
\* delimiter holds a sentinel that starts before the delimiter.
C4_RoundTripDelimiterFirst ==
    (/\ bcp_state # "reading"
     /\ WellFormedRows(written)
     /\ DelimiterFirst(written)
     /\ Serialize(written) = f_bytes)
        => (bcp_state = "done" /\ yielded = written)

C4_Witness ==
    /\ bcp_state = "done"
    /\ WellFormedRows(written)
    /\ DelimiterFirst(written)
    /\ Serialize(written) = f_bytes
    /\ Len(written[1]) = 2
    /\ written[1][1] = <<"@">>
    /\ yielded = written

\* C5: at end of stream nothing is yielded for what follows the last row
\* boundary (closed cells and a partly read cell are dropped without error);
\* records are yielded at row boundaries only, one per boundary that raises
\* no error.
C5_TrailingContentDiscarded ==
    /\ [][(bcp_state = "reading" /\ f_tell >= Len(f_bytes))
            => (bcp_state' = "done" /\ yielded' = yielded)]_vars
    /\ [][yielded' # yielded
            => /\ AtRowBreak
               /\ Len(yielded') = Len(yielded) + 1
               /\ SubSeq(yielded', 1, Len(yielded)) = yielded]_vars
    /\ [][(AtRowBreak /\ bcp_state' # "BcpParseError")
            => Len(yielded') = Len(yielded) + 1]_vars

C5_Witness ==
    /\ bcp_state = "done"
    /\ Len(yielded) >= 1
    /\ row # <<>>
    /\ cell # <<>>

(***************************************************************************)
(* Claims about parse_sir and join_continuation_strings                    *)
(***************************************************************************)
\* C6: a row after the first with n cells, n greater than the expected count
\* e, is yielded with exactly e cells: its first e-1 cells unchanged, then the
\* last n-e+1 cells joined with tabs; no cell's text is dropped.
C6_OverflowMergedIntoLastCell ==
    (line_no >= 2 /\ Len(tsv_r) > sir_expected_cell_count)
        => /\ Len(sir_r) = sir_expected_cell_count
           /\ SubSeq(sir_r, 1, sir_expected_cell_count - 1)
                = SubSeq(tsv_r, 1, sir_expected_cell_count - 1)
           /\ sir_r[sir_expected_cell_count]
                = join(TAB, SubSeq(tsv_r, sir_expected_cell_count, Len(tsv_r)))

\* the claim's result: every chunk but the last loses one trailing '0001'
JoinedAsClaimed(cs) ==
    Flatten([i \in 1..Len(cs) |->
        IF /\ i < Len(cs)
           /\ Len(cs[i]) >= 4
           /\ SubSeq(cs[i], Len(cs[i]) - 3, Len(cs[i])) = Suffix0001
        THEN SubSeq(cs[i], 1, Len(cs[i]) - 4)
        ELSE cs[i]])

\* C8: for a non-empty list the result is the chunks in order, no separator,
\* a trailing '0001' removed from every chunk but the last; the last (or
\* only) chunk is never stripped.
C8_JoinStripsAllButLast ==
    (join_state = "returned" /\ chunks # <<>>)
        => /\ join_result = JoinedAsClaimed(chunks)
           /\ arry[Len(arry)] = chunks[Len(chunks)]

C8_Witness ==
    /\ join_state = "returned"
    /\ Len(chunks) = 3
    /\ chunks[1] = <<"a">> \o Suffix0001
    /\ chunks[2] = Suffix0001 \o Suffix0001
    /\ chunks[3] = Suffix0001
    /\ join_result = <<"a">> \o Suffix0001 \o Suffix0001

(***************************************************************************)
(* Claims about the RDF mappers                                            *)
(***************************************************************************)
\* the strings the mapper wrote in this step
NewWrites == SubSeq(rdf_file', Len(rdf_file) + 1, Len(rdf_file'))

Mentions(text, atom) == \E i \in 1..Len(text) : text[i] = atom

IsSubsidiaryOutput(text) ==
    \/ Mentions(text, "/subsidiary/")
    \/ Mentions(text, " s:childOrganization ")
    \/ Mentions(text, "\t; s:parentOrganization charity:")

\* C7: a mapper that builds the charity identifier from (registered number,
\* subsidiary number) writes the top-level identifier, no '/subsidiary/'
\* segment and no parent/child statement, whenever the subsidiary cell is '0'
\* or absent; this holds for charity_iri (convert_name) and for
\* convert_charities_extract alike.
C7_ZeroOrAbsentIsTopLevel ==
    [][(/\ conversion_function \in {"convert_charities_extract", "convert_name"}
        /\ rows_read' = rows_read + 1
        /\ map_row'[2] \in {None, <<"0">>})
        => \A i \in 1..Len(NewWrites) : ~IsSubsidiaryOutput(NewWrites[i])]_vars

\* C10: an absent descriptive text cell (the name of convert_name, the label
\* of convert_class_ref, a chunk of convert_objectives) never makes the mapper
\* raise; only the fragment of the absent cell is left out.
C10_AbsentCellNeverRaises ==
    conversion_function \in {"convert_name", "convert_class_ref", "convert_objectives"}
        => map_state \in {"running", "done"}

(***************************************************************************)
(* Claims about the batch driver                                           *)
(***************************************************************************)
\* the run follows a run of the same mode that completed without error
AfterCleanRun == run_state = "running" /\ prev = [mode |-> mode, state |-> "ok"]

OutputOfJob == IF mode = "csv" THEN target[job].csv ELSE target[job].ttl

\* C9: after a run of convert_to_csv or convert_to_rdf that completed without
\* error, a second run on the same directories skips every input (its output
\* exists already) and creates, overwrites or modifies no output file.
C9_SecondRunChangesNothing ==
    /\ [][AfterCleanRun => target' = target]_vars
    /\ [](AfterCleanRun /\ job <= SirInput
            => \/ OutputOfJob.kind # "absent"
               \/ mode = "csv" /\ source[job] = "missing")

C9_Witness ==
    /\ run_no = 2
    /\ run_state = "ok"
    /\ mode = "rdf"
    /\ prev = [mode |-> "rdf", state |-> "ok"]
    /\ \A i \in Inputs : target[i].ttl = [kind |-> "complete", run |-> 1]

\* C11: whenever a conversion reads a further record from the tokenizer,
\* everything it has written for the records before is flushed: no step that
\* reads record k+1 starts with output that no flush has pushed out.
C11_FlushedBeforeNextRecord ==
    [][rows_read' = rows_read + 1 => flushed = Len(rdf_file)]_vars

\* the contact cells of an extract_charity record: row[9] to row[17]
ContactCells == 10..18

DiffersOnlyInContact(r1, r2) ==
    /\ Len(r1) = Len(r2)
    /\ \A k \in 1..Len(r1) : k \notin ContactCells => r1[k] = r2[k]

\* C12: what convert_charities_extract writes for a record is what it writes
\* for every record that differs from it only in the contact cells, so two
\* runs on such inputs write the same file; and convert_trustee is never the
\* mapper of a conversion, so no trustee output is written.
C12_ContactDetailsNeverWritten ==
    /\ [](conversion_function # "convert_trustee")
    /\ [][conversion_function = "convert_charities_extract"
            /\ rows_read' = rows_read + 1
          => \A r2 \in CharityRecords :
                DiffersOnlyInContact(map_row', r2)
                    => NewWrites = CharitiesExtractWrites(r2)]_vars

C12_Witness ==
    /\ conversion_function = "convert_charities_extract"
    /\ map_state = "done"
    /\ rows_read = MaxRecords
    /\ map_row[10] = <<"c">>
    /\ \E r2 \in CharityRecords :
        /\ r2[10] = None
        /\ DiffersOnlyInContact(map_row, r2)
    /\ Len(rdf_file) > 0

\* a step of convert_objectives that reads a record; one that reads a record
\* of another charity while a run is open; the step at the end of the stream
\* with a run open
ObjectivesReads ==
    /\ conversion_function = "convert_objectives"
    /\ rows_read' = rows_read + 1

ObjectivesRunCloses ==
    /\ ObjectivesReads
    /\ charity_iri(map_row'[1], map_row'[2]) # current_charity
    /\ Len(o) > 0

ObjectivesStreamEnds ==
    /\ conversion_function = "convert_objectives"
    /\ map_state = "running"
    /\ rows_read' = rows_read
    /\ Len(o) > 0

\* the chunks of the open run by index cell after the record read: the
\* record's chunk at its index, the chunks placed before where they were,
\* empty text at the indices that never occurred
ChunksPlacedByIndex ==
    LET before == IF charity_iri(map_row'[1], map_row'[2]) # current_charity
                  THEN <<>> ELSE o
        ix == int(map_row'[3])
    IN  /\ Len(o') = (IF Len(before) < ix + 1 THEN ix + 1 ELSE Len(before))
        /\ \A i \in 1..Len(o') :
              o'[i] = (IF i = ix + 1 THEN map_row'[4]
                       ELSE IF i <= Len(before) THEN before[i] ELSE <<>>)

\* C13: convert_objectives writes exactly one objective statement when a run
\* of records of one charity ends (a record of another charity arrives, or
\* the stream ends), and nothing while the run is open; the statement's text
\* is the run's chunks by index, joined by join_continuation_strings.
C13_OneStatementPerRun ==
    [][/\ (ObjectivesRunCloses \/ ObjectivesStreamEnds)
            => /\ NewWrites = << current_charity \o <<" ont:objective \"">>
                                \o escape_string(join_continuation_strings(o))
                                \o <<"\" .\n">> >>
               /\ map_state' \in {"running", "done"}
       /\ (ObjectivesReads /\ ~ObjectivesRunCloses) => NewWrites = <<>>
       /\ ObjectivesReads => ChunksPlacedByIndex]_vars

(***************************************************************************)
(* Further claims about parse_bcp                                          *)
(***************************************************************************)
\* s.split(sep): the pieces between the occurrences of sep, found from the
\* left, each search resuming after the occurrence before
RECURSIVE SplitOn(_, _)
SplitOn(s, sep) ==
    LET hits == {i \in 1..(Len(s) - Len(sep) + 1) :
                    SubSeq(s, i, i + Len(sep) - 1) = sep}
    IN  IF hits = {} THEN <<s>>
        ELSE LET i == CHOOSE h \in hits : \A g \in hits : h <= g
             IN  <<SubSeq(s, 1, i - 1)>>
                    \o SplitOn(SubSeq(s, i + Len(sep), Len(s)), sep)

\* the naive split of a whole buffer: rows between '*@@*', the piece after
\* the last one dropped, cells between '@**@', each cell closed by the
\* null/right-trim rule, the rows up to the first of another width than the
\* first row
NaiveSplit(buf) ==
    LET pieces == SplitOn(buf, RowBreakSentinel)
        whole == SubSeq(pieces, 1, Len(pieces) - 1)
        rows == [k \in 1..Len(whole) |->
                    LET cs == SplitOn(whole[k], CellBreakSentinel)
                    IN  [j \in 1..Len(cs) |->
                            IF cs[j] = <<>> THEN None ELSE rstrip(cs[j])]]
        bad == {k \in 1..Len(whole) : Len(rows[k]) # Len(rows[1])}
    IN  IF bad = {} THEN [rows |-> rows, error |-> FALSE]
        ELSE [rows |-> SubSeq(rows, 1,
                              (CHOOSE b \in bad : \A g \in bad : b <= g) - 1),
              error |-> TRUE]

\* a '*@@*' that begins on the third character of a '@**@'
RowBreakInsideCellBreak(buf) ==
    \E i \in 1..(Len(buf) - 5) :
        SubSeq(buf, i, i + 5) = <<"@", "*", "*", "@", "@", "*">>

\* C14: when parse_bcp has finished with a buffer, the rows it yielded, and
\* whether it raised BcpParseError, are those of the naive split of the
\* buffer.
C14_NaiveSplitEquivalent ==
    bcp_state \in {"done", "BcpParseError"}
        => /\ yielded = NaiveSplit(f_bytes).rows
           /\ (bcp_state = "BcpParseError") = NaiveSplit(f_bytes).error

\* C14, amended: the same, for the buffers in which no '*@@*' begins inside a
\* '@**@' (no '@**@@*').
C14_NaiveSplitEquivalentNoOverlap ==
    (bcp_state \in {"done", "BcpParseError"} /\ ~RowBreakInsideCellBreak(f_bytes))
        => /\ yielded = NaiveSplit(f_bytes).rows
           /\ (bcp_state = "BcpParseError") = NaiveSplit(f_bytes).error

C14_Witness ==
    /\ bcp_state = "done"
    /\ ~RowBreakInsideCellBreak(f_bytes)
    /\ Len(yielded) = 2
    /\ Len(yielded[1]) = 2
    /\ yielded = NaiveSplit(f_bytes).rows
    /\ \E i \in 1..(Len(f_bytes) - 5) :
            SubSeq(f_bytes, i, i + 5) = <<"*", "@", "@", "*", "*", "@">>

\* C15: every iteration of parse_bcp's loop leaves the stream position at
\* least one character further and never past the end of the stream, and
\* parse_bcp ends: the stream is exhausted or BcpParseError is raised.
C15_Terminates ==
    /\ [][pos' = pos + 1 => f_tell' >= f_tell + 1]_vars
    /\ [](f_tell <= Len(f_bytes))
    /\ <>(bcp_state \in {"done", "BcpParseError"})

C15_Witness ==
    /\ bcp_state = "done"
    /\ f_tell = Len(f_bytes)
    /\ pos >= 3
    /\ pos < f_tell
    /\ \E i \in 1..(Len(f_bytes) - 1) :
            SubSeq(f_bytes, i, i + 1) = <<"@", "@">>

(***************************************************************************)
(* Further claims about the batch driver                                   *)
(***************************************************************************)
\* the output file the run's current job would write
JobOutput == IF mode = "csv" THEN target[job].csv ELSE target[job].ttl

\* C16: an output file that a run finds in the target directory, and skips
\* the conversion for, holds the complete conversion of its input: no
\* aborted conversion has left it there.
C16_SkippedOutputIsComplete ==
    [][(/\ run_state = "running"
        /\ job <= SirInput
        /\ job' = job + 1
        /\ Exists(JobOutput))
          => JobOutput.kind = "complete"]_vars

(***************************************************************************)
(* Claims about sir_to_rdf                                                 *)
(***************************************************************************)
SirNewWrites ==
    SubSeq(sir_rdf_file', Len(sir_rdf_file) + 1, Len(sir_rdf_file'))

CountWrites(text, atom) ==
    Cardinality({i \in 1..Len(text) : Mentions(text[i], atom)})

\* C17: sir_to_rdf handles every row parse_sir yields without an error: a row
\* of fewer than 6 or more than 7 cells is skipped, nothing written; for a
\* row of 6 or 7 cells exactly one SummaryInformationResponse block with
\* exactly one responseText line is written.
C17_NeverFailsOnRowWidth ==
    [][sir_state = "yielded"
        => /\ sir_state' = "reading"
           /\ IF Len(sir_r) < 6 \/ Len(sir_r) > 7
              THEN SirNewWrites = <<>>
              ELSE /\ CountWrites(SirNewWrites,
                                  " a ont:SummaryInformationResponse\n") = 1
                   /\ CountWrites(SirNewWrites, "\t;ont:responseText \"") = 1]_vars

=============================================================================
